---------------------------- MODULE Spec2Model ----------------------------
(***************************************************************************)
(* A model of ct/crypto/verify.py: the LogVerifier of a Certificate        *)
(* Transparency client.  Byte strings are sequences of numbers 0..255, a   *)
(* Python call ends in an outcome that is either a returned value or a     *)
(* raised exception, and the Python values True, False and None are the    *)
(* strings "True", "False" and "None".                                     *)
(***************************************************************************)
EXTENDS Integers, Sequences, FiniteSets, TLC

VARIABLES
    construction,   \* what the LogVerifier was built from and with
    verifier,   \* the constructed LogVerifier: its private fields
    frame,      \* per caller: the frame of the call it is running
    locals,     \* the local variables of the calls
    trace,      \* per caller: the stages its current call has executed
    enc,        \* a call of _encode_sth_input: its argument and outcome
    dec,        \* a call of _decode_signature: its argument and outcome
    tc          \* a call of verify_sth_temporal_consistency

vars == <<construction, verifier, frame, locals, trace, enc, dec, tc>>

-----------------------------------------------------------------------------
(* Outcomes of a Python call.                                              *)

Return(v) == [kind |-> "return", value |-> v, error |-> "none"]

Raise(e) == [kind |-> "raise", value |-> "none", error |-> e]

Returned(o) == o.kind = "return"

Raised(o, e) == o.kind = "raise" /\ o.error = e

\* No call has been made yet.
NoCall == [kind |-> "nocall"]

-----------------------------------------------------------------------------
(* Bounds of the model.                                                    *)

\* timestamps of the STH pairs given to the temporal check are 0..MaxTime
MaxTime == 2
\* tree sizes of the STH pairs given to the temporal check are 0..MaxSize
MaxSize == 2
\* signature containers given to the decoder have at most MaxSigLen bytes
MaxSigLen == 6
\* timestamps and tree sizes given to the encoder include 0..MaxSmallU64
MaxSmallU64 == 2

-----------------------------------------------------------------------------
(* Program constants.                                                      *)

\* ct_pb2.V1
V1 == 0
\* ct_pb2.TREE_HEAD
TREE_HEAD == 1
\* ct_pb2.DigitallySigned.SHA256
SHA256 == 4
\* ct_pb2.DigitallySigned.ECDSA
ECDSA == 3
\* the root hash length _encode_sth_input demands, and the width of "32s"
HashLen == 32

-----------------------------------------------------------------------------
(* struct and io.BytesIO.                                                  *)

Min(a, b) == IF a < b THEN a ELSE b

\* struct.pack(">Q", n) for k = 8, (">H", n) for k = 2, (">B", n) for k = 1:
\* n as k big-endian bytes.
RECURSIVE PackBE(_, _)
PackBE(n, k) == IF k = 0 THEN <<>> ELSE Append(PackBE(n \div 256, k - 1), n % 256)

\* struct.unpack of a big-endian unsigned field: the number the bytes spell.
RECURSIVE UnpackBE(_)
UnpackBE(b) ==
    IF b = <<>> THEN 0
    ELSE 256 * UnpackBE(SubSeq(b, 1, Len(b) - 1)) + b[Len(b)]

\* struct.pack("32s", b): b cut or zero-padded to exactly 32 bytes.
Pack32s(b) == [i \in 1..HashLen |-> IF i <= Len(b) THEN b[i] ELSE 0]

\* io.BytesIO(data).read(n) with the stream at offset pos: at most n bytes,
\* fewer when the data ends.
StreamRead(data, pos, n) == SubSeq(data, pos + 1, Min(pos + n, Len(data)))

\* io.BytesIO(data).read() with the stream at offset pos: all that is left.
StreamReadAll(data, pos) == SubSeq(data, pos + 1, Len(data))

-----------------------------------------------------------------------------
(* LogVerifier._encode_sth_input                                           *)

\* The length check left out: "32s" then cuts or pads the hash silently.
EncodeNoLengthCheck(sth_response) ==
    Return(<<V1>> \o <<TREE_HEAD>> \o PackBE(sth_response.timestamp, 8)
           \o PackBE(sth_response.tree_size, 8)
           \o Pack32s(sth_response.sha256_root_hash))

_encode_sth_input(sth_response) ==
    IF Len(sth_response.sha256_root_hash) # HashLen
    THEN Raise("EncodingError")
    ELSE Return(PackBE(V1, 1) \o PackBE(TREE_HEAD, 1)
                \o PackBE(sth_response.timestamp, 8)
                \o PackBE(sth_response.tree_size, 8)
                \o Pack32s(sth_response.sha256_root_hash))

-----------------------------------------------------------------------------
(* LogVerifier._decode_signature                                           *)

\* A lenient parser: reads sig_length bytes and ignores what follows.
DecodeLenient(signature) ==
    LET sig_prefix == StreamRead(signature, 0, 2)
        length_prefix == StreamRead(signature, 2, 2)
    IN  IF Len(sig_prefix) # 2 THEN Raise("EncodingError")
        ELSE IF sig_prefix[1] # SHA256 \/ sig_prefix[2] # ECDSA
        THEN Raise("EncodingError")
        ELSE IF Len(length_prefix) # 2 THEN Raise("EncodingError")
        ELSE LET sig_length == UnpackBE(length_prefix)
                 remaining == StreamRead(signature, 4, sig_length)
             IN  IF Len(remaining) # sig_length
                 THEN Raise("EncodingError")
                 ELSE Return(remaining)

_decode_signature(signature) ==
    LET sig_prefix == StreamRead(signature, 0, 2)
    IN  IF Len(sig_prefix) # 2 THEN Raise("EncodingError")
        ELSE LET hash_algo == UnpackBE(SubSeq(sig_prefix, 1, 1))
                 sig_algo == UnpackBE(SubSeq(sig_prefix, 2, 2))
             IN  IF hash_algo # SHA256 \/ sig_algo # ECDSA
                 THEN Raise("EncodingError")
                 ELSE LET length_prefix == StreamRead(signature, 2, 2)
                      IN  IF Len(length_prefix) # 2
                          THEN Raise("EncodingError")
                          ELSE LET sig_length == UnpackBE(length_prefix)
                                   remaining == StreamReadAll(signature, 4)
                               IN  IF Len(remaining) # sig_length
                                   THEN Raise("EncodingError")
                                   ELSE Return(remaining)

-----------------------------------------------------------------------------
(* error.returns_true_or_raises: the decorator of the three public checks. *)
(* A wrapped function that returns anything but True raises RuntimeError;  *)
(* an exception of the wrapped function passes through unchanged.          *)

returns_true_or_raises(o) ==
    IF o.kind = "return" /\ o.value # "True" THEN Raise("RuntimeError") ELSE o

-----------------------------------------------------------------------------
(* LogVerifier.verify_sth_temporal_consistency                             *)

\* The size rules tested before the order of the timestamps.
TemporalSizesFirst(old_sth, new_sth) ==
    IF old_sth.tree_size > new_sth.tree_size
    THEN Raise("ConsistencyError")
    ELSE IF old_sth.timestamp > new_sth.timestamp
    THEN Raise("ValueError")
    ELSE IF old_sth.timestamp = new_sth.timestamp
            /\ old_sth.tree_size # new_sth.tree_size
    THEN Raise("ConsistencyError")
    ELSE Return("True")

\* The monotonicity rule with <= for <: equal sizes at a later time rejected.
TemporalStrictGrowth(old_sth, new_sth) ==
    IF old_sth.timestamp > new_sth.timestamp
    THEN Raise("ValueError")
    ELSE IF old_sth.timestamp = new_sth.timestamp
            /\ old_sth.tree_size # new_sth.tree_size
    THEN Raise("ConsistencyError")
    ELSE IF old_sth.timestamp < new_sth.timestamp
            /\ old_sth.tree_size >= new_sth.tree_size
    THEN Raise("ConsistencyError")
    ELSE Return("True")

\* The two size rules merged into one: at equal timestamps only a shrinking
\* tree is rejected.
TemporalMergedRules(old_sth, new_sth) ==
    IF old_sth.timestamp > new_sth.timestamp
    THEN Raise("ValueError")
    ELSE IF old_sth.timestamp <= new_sth.timestamp
            /\ old_sth.tree_size > new_sth.tree_size
    THEN Raise("ConsistencyError")
    ELSE Return("True")

\* The equal-timestamp rule comparing the whole STHs rather than the sizes.
TemporalComparesHashes(old_sth, new_sth) ==
    IF old_sth.timestamp > new_sth.timestamp
    THEN Raise("ValueError")
    ELSE IF old_sth.timestamp = new_sth.timestamp
            /\ (old_sth.tree_size # new_sth.tree_size
                \/ old_sth.sha256_root_hash # new_sth.sha256_root_hash)
    THEN Raise("ConsistencyError")
    ELSE IF old_sth.timestamp < new_sth.timestamp
            /\ old_sth.tree_size > new_sth.tree_size
    THEN Raise("ConsistencyError")
    ELSE Return("True")

\* The body of the function, lines 145-160.
temporal_consistency_body(old_sth, new_sth) ==
    IF old_sth.timestamp > new_sth.timestamp
    THEN Raise("ValueError")
    ELSE IF old_sth.timestamp = new_sth.timestamp
            /\ old_sth.tree_size # new_sth.tree_size
    THEN Raise("ConsistencyError")
    ELSE IF old_sth.timestamp < new_sth.timestamp
            /\ old_sth.tree_size > new_sth.tree_size
    THEN Raise("ConsistencyError")
    ELSE Return("True")

\* The decorated static method.
verify_sth_temporal_consistency(old_sth, new_sth) ==
    returns_true_or_raises(temporal_consistency_body(old_sth, new_sth))

-----------------------------------------------------------------------------
(* Input values.                                                           *)

\* A byte string of n bytes that differ from one another, told by its seed.
Hash(seed, n) == [i \in 1..n |-> (seed + i) % 256]

\* An STH response.
STH(ts, size, hash, sig) ==
    [timestamp |-> ts, tree_size |-> size, sha256_root_hash |-> hash,
     tree_head_signature |-> sig]

\* Unsigned 64-bit values: the small ones, and values that fill one, two,
\* three and four bytes of the big-endian field.
U64Samples == (0..MaxSmallU64) \cup {255, 256, 65536, 16909060, 2147483647}

\* Root hashes given to the encoder: empty, one byte short, exact, one over.
EncodeHashes ==
    {Hash(seed, n) : seed \in {16, 200}, n \in {0, HashLen - 1, HashLen, HashLen + 1}}

EncodeInputs ==
    {STH(ts, size, h, <<>>) : ts \in U64Samples, size \in U64Samples, h \in EncodeHashes}

\* Bytes of the signature containers given to the decoder: the two tags,
\* and what a length prefix of a short container needs.
SigBytes == {0, 1, 2, ECDSA, SHA256}

RECURSIVE SeqsUpTo(_, _)
SeqsUpTo(S, n) ==
    IF n = 0 THEN {<<>>}
    ELSE LET shorter == SeqsUpTo(S, n - 1)
         IN  shorter \cup {Append(q, x) : q \in {r \in shorter : Len(r) = n - 1}, x \in S}

DecodeInputs == SeqsUpTo(SigBytes, MaxSigLen)

\* Root hash and signature of the STHs given to the temporal check: a pair,
\* the same with another root hash, the same with another signature.
TemporalPayloads ==
    {<<Hash(16, HashLen), <<>>>>, <<Hash(200, HashLen), <<>>>>,
     <<Hash(16, HashLen), <<SHA256, ECDSA, 0, 0>>>>}

\* STHs given to the temporal check: every timestamp and size of the bounds.
TemporalInputs ==
    {STH(ts, size, p[1], p[2]) : ts \in 0..MaxTime, size \in 0..MaxSize,
                                 p \in TemporalPayloads}

-----------------------------------------------------------------------------
(* The specifications of the three pure functions.                         *)

\* The LogVerifier and its callers, at rest.
Parked ==
    /\ construction = <<>>
    /\ verifier = <<>>
    /\ frame = <<>>
    /\ locals = <<>>
    /\ trace = <<>>

EncodeInit ==
    /\ Parked
    /\ enc \in {[kind |-> "pending", arg |-> s] : s \in EncodeInputs}
    /\ dec = NoCall
    /\ tc = NoCall

EncodeCall ==
    /\ enc.kind = "pending"
    /\ enc' = [kind |-> "done", arg |-> enc.arg, out |-> _encode_sth_input(enc.arg)]
    /\ UNCHANGED <<construction, verifier, frame, locals, trace, dec, tc>>

SpecEncode == EncodeInit /\ [][EncodeCall]_vars

DecodeInit ==
    /\ Parked
    /\ dec \in {[kind |-> "pending", arg |-> s] : s \in DecodeInputs}
    /\ enc = NoCall
    /\ tc = NoCall

DecodeCall ==
    /\ dec.kind = "pending"
    /\ dec' = [kind |-> "done", arg |-> dec.arg, out |-> _decode_signature(dec.arg)]
    /\ UNCHANGED <<construction, verifier, frame, locals, trace, enc, tc>>

SpecDecode == DecodeInit /\ [][DecodeCall]_vars

TemporalInit ==
    /\ Parked
    /\ enc = NoCall
    /\ dec = NoCall
    /\ tc = NoCall

\* One call after another, each with any pair of STHs.
TemporalCall ==
    \E old_sth \in TemporalInputs, new_sth \in TemporalInputs :
        /\ tc' = [kind |-> "done", old |-> old_sth, new |-> new_sth,
                  out |-> verify_sth_temporal_consistency(old_sth, new_sth)]
        /\ UNCHANGED <<construction, verifier, frame, locals, trace, enc, dec>>

SpecTemporal == TemporalInit /\ [][TemporalCall]_vars

-----------------------------------------------------------------------------
(* The collaborators: the ecdsa signature engine and the Merkle verifier.  *)

\* Stands for SHA-256: a number that depends on every byte and its place.
RECURSIVE Digest(_)
Digest(msg) ==
    IF msg = <<>> THEN 0
    ELSE (Digest(SubSeq(msg, 1, Len(msg) - 1)) + Len(msg) * msg[Len(msg)]) % 251

\* The DER signature the holder of the private key of `key` makes of msg:
\* the SEQUENCE tag 0x30 and, standing for the pair (r, s), key and digest.
SignatureOf(key, msg) == <<48, key, Digest(msg)>>

WellFormedDER(sig) == Len(sig) = 3 /\ sig[1] = 48

\* ecdsa.VerifyingKey.verify(signature, data, hashfunc, sigdecode).  The
\* library raises BadSignatureError for a signature that does not verify;
\* a key object whose lib is "returns_false" stands for an engine that
\* returns False there instead.
pubkey_verify(pubkey, signature, data) ==
    IF ~WellFormedDER(signature) THEN Raise("UnexpectedDER")
    ELSE IF signature = SignatureOf(pubkey.key, data) THEN Return("True")
    ELSE IF pubkey.lib = "raises" THEN Raise("BadSignatureError")
    ELSE Return("False")

\* merkle_verifier.verify_tree_consistency(old_size, new_size, old_root,
\* new_root, proof) of the three verifiers a LogVerifier is built with:
\* the Merkle verifier (two trees of one size must have one root, and a
\* proof must end in the new root), a stub that always raises ProofError,
\* and a stub that returns False.
verify_tree_consistency(merkle_verifier, old_size, new_size, old_root, new_root, proof) ==
    CASE merkle_verifier = "always_fails" -> Raise("ProofError")
      [] merkle_verifier = "returns_false" -> Return("False")
      [] merkle_verifier = "merkle" ->
           IF old_size = new_size
           THEN IF old_root = new_root THEN Return("True") ELSE Raise("ProofError")
           ELSE IF proof # <<>> /\ proof[Len(proof)] = new_root
           THEN Return("True")
           ELSE Raise("ProofError")

-----------------------------------------------------------------------------
(* LogVerifier.__init__ and LogVerifier._verify                            *)

\* The fields of a LogVerifier built from a key_info of type ECDSA whose
\* pem_key decodes: __merkle_verifier, __der and __pubkey.
LogVerifier_init(key_info, merkle_verifier) ==
    [merkle_verifier |-> merkle_verifier,
     der |-> key_info.pem_key.der,
     pubkey |-> [key |-> key_info.pem_key.der, lib |-> key_info.pem_key.lib]]

_verify(self, signature_input, signature) ==
    LET o == pubkey_verify(self.pubkey, signature, signature_input)
    IN  IF Raised(o, "UnexpectedDER") THEN Raise("EncodingError")
        ELSE IF Raised(o, "BadSignatureError") THEN Raise("SignatureError")
        ELSE o

-----------------------------------------------------------------------------
(* The stages of verify_sth and verify_sth_consistency.  A call is a frame *)
(* (its arguments, where it stands, what it ended with) and its local      *)
(* variables; a stage takes both and gives both back, with the event it    *)
(* adds to the trace of the call.                                          *)

Running == [kind |-> "running"]

EmptyLocals == [signature_input |-> <<>>, signature |-> <<>>]

Event(stage, args, out) == [stage |-> stage, args |-> args, out |-> out]

\* A call that has ended has no local variables left.
Leave(r) == IF r.frame.pc = "done" THEN [r EXCEPT !.locals = EmptyLocals] ELSE r

\* verify_sth without its decorator: what _verify returns is returned.
Undecorated(o) == o

\* The decorator on verify_sth, line 103.
verify_sth_decorated(o) == returns_true_or_raises(o)

\* The decorator on verify_sth_consistency, line 162.
verify_sth_consistency_decorated(o) == returns_true_or_raises(o)

\* An exception of a stage caught and dropped: the next stage runs.
VerifySthKeepsGoing(pc, o) ==
    CASE pc = "encode" -> "decode"
      [] pc = "decode" -> "verify"
      [] pc = "verify" -> "done"

\* Lines 120-122 in order: an exception ends the call where it is raised.
verify_sth_next(pc, o) ==
    IF o.kind = "raise" THEN "done"
    ELSE CASE pc = "encode" -> "decode"
           [] pc = "decode" -> "verify"
           [] pc = "verify" -> "done"

\* Line 120.
encode_stage(self, f, l) ==
    LET o == _encode_sth_input(f.sth_response)
    IN  Leave([frame |-> [f EXCEPT !.pc = verify_sth_next("encode", o),
                                   !.ret = IF Returned(o) THEN @ ELSE verify_sth_decorated(o)],
               locals |-> IF Returned(o) THEN [l EXCEPT !.signature_input = o.value] ELSE l,
               event |-> Event("encode", <<>>, o)])

\* Line 121.
decode_stage(self, f, l) ==
    LET o == _decode_signature(f.sth_response.tree_head_signature)
    IN  Leave([frame |-> [f EXCEPT !.pc = verify_sth_next("decode", o),
                                   !.ret = IF Returned(o) THEN @ ELSE verify_sth_decorated(o)],
               locals |-> IF Returned(o) THEN [l EXCEPT !.signature = o.value] ELSE l,
               event |-> Event("decode", <<>>, o)])

\* Line 122.
verify_stage(self, f, l) ==
    LET o == _verify(self, l.signature_input, l.signature)
    IN  Leave([frame |-> [f EXCEPT !.pc = verify_sth_next("verify", o),
                                   !.ret = verify_sth_decorated(o)],
               locals |-> l,
               event |-> Event("engine", <<l.signature, l.signature_input>>,
                               pubkey_verify(self.pubkey, l.signature, l.signature_input))])

\* The whole of verify_sth_temporal_consistency, and line 184.
temporal_stage(self, f, l) ==
    LET o == verify_sth_temporal_consistency(f.old_sth, f.new_sth)
        ends == f.op = "verify_sth_temporal_consistency" \/ o.kind = "raise"
    IN  Leave([frame |-> [f EXCEPT !.pc = IF ends THEN "done" ELSE "merkle",
                                   !.ret = IF f.op = "verify_sth_temporal_consistency" THEN o
                                           ELSE IF o.kind = "raise"
                                           THEN verify_sth_consistency_decorated(o)
                                           ELSE @],
               locals |-> l,
               event |-> Event("temporal", <<>>, o)])

\* The sizes and the roots each in the other's place.
MerkleArgsSwapped(f) ==
    <<f.new_sth.tree_size, f.old_sth.tree_size, f.new_sth.sha256_root_hash,
      f.old_sth.sha256_root_hash, f.proof>>

\* The arguments of lines 185-187.
merkle_args(f) ==
    <<f.old_sth.tree_size, f.new_sth.tree_size, f.old_sth.sha256_root_hash,
      f.new_sth.sha256_root_hash, f.proof>>

\* Lines 185-188: what verify_tree_consistency returns is dropped.
merkle_stage(self, f, l) ==
    LET a == merkle_args(f)
        o == verify_tree_consistency(self.merkle_verifier, a[1], a[2], a[3], a[4], a[5])
    IN  Leave([frame |-> [f EXCEPT !.pc = "done",
                                   !.ret = IF o.kind = "raise"
                                           THEN verify_sth_consistency_decorated(o)
                                           ELSE verify_sth_consistency_decorated(Return("True"))],
               locals |-> l,
               event |-> Event("merkle", a, o)])

\* The stage a call stands at.
Stage(self, f, l) ==
    CASE f.pc = "encode" -> encode_stage(self, f, l)
      [] f.pc = "decode" -> decode_stage(self, f, l)
      [] f.pc = "verify" -> verify_stage(self, f, l)
      [] f.pc = "temporal" -> temporal_stage(self, f, l)
      [] f.pc = "merkle" -> merkle_stage(self, f, l)

\* The frames of the three calls as they start.
Frame_verify_sth(sth_response) ==
    [op |-> "verify_sth", pc |-> "encode", sth_response |-> sth_response,
     ret |-> Running]

Frame_verify_sth_temporal_consistency(old_sth, new_sth) ==
    [op |-> "verify_sth_temporal_consistency", pc |-> "temporal",
     old_sth |-> old_sth, new_sth |-> new_sth, ret |-> Running]

Frame_verify_sth_consistency(old_sth, new_sth, proof) ==
    [op |-> "verify_sth_consistency", pc |-> "temporal",
     old_sth |-> old_sth, new_sth |-> new_sth, proof |-> proof, ret |-> Running]

\* A call run from its start to its end with nothing between its stages.
RECURSIVE RunFrom(_, _, _)
RunFrom(self, f, l) ==
    IF f.pc = "done" THEN f.ret
    ELSE LET r == Stage(self, f, l) IN RunFrom(self, r.frame, r.locals)

-----------------------------------------------------------------------------
(* The callers of one LogVerifier.                                         *)

Callers == {"c1", "c2"}

\* What the verifier is built from and with: the key_info (its pem_key
\* stands for the key it decodes to and the engine that key is handed to)
\* and the Merkle verifier.
Constructions ==
    {[key_info |-> [type |-> "ECDSA", pem_key |-> [der |-> 1, lib |-> "raises"]],
      merkle_verifier |-> "merkle"],
     [key_info |-> [type |-> "ECDSA", pem_key |-> [der |-> 2, lib |-> "raises"]],
      merkle_verifier |-> "always_fails"],
     [key_info |-> [type |-> "ECDSA", pem_key |-> [der |-> 1, lib |-> "returns_false"]],
      merkle_verifier |-> "returns_false"]}

HashA == Hash(16, HashLen)

HashB == Hash(200, HashLen)

\* The TLS container of a payload.
Container(payload) == <<SHA256, ECDSA>> \o PackBE(Len(payload), 2) \o payload

\* The canonical input of the STH the signatures below are made of.
SignedInput(ts) == _encode_sth_input(STH(ts, 1, HashA, <<>>)).value

\* Signatures of the STHs given to verify_sth: by key 1, by key 2, by key 1
\* of another timestamp, a payload that is no DER, a container one byte
\* short of its length prefix, a container cut after its first byte.
VerifySignatures ==
    {Container(SignatureOf(1, SignedInput(1))),
     Container(SignatureOf(2, SignedInput(1))),
     Container(SignatureOf(1, SignedInput(2))),
     Container(<<1, 2, 3>>),
     <<SHA256, ECDSA, 0, 2, 48>>,
     <<SHA256>>}

\* STHs given to verify_sth: a root hash of 32 bytes or of 31.
VerifyInputs ==
    {STH(1, 1, h, sig) : h \in {HashA, Hash(16, HashLen - 1)}, sig \in VerifySignatures}

PairTimes == {1, 2}

PairSizes == {1, 2}

\* Pairs of STHs given to the two consistency checks: the new one with the
\* root hash and signature of the old, with another root hash, with another
\* signature.
PairInputs ==
    {<<STH(ot, os, HashA, <<>>), STH(nt, ns, p[1], p[2])>> :
        ot \in PairTimes, os \in PairSizes, nt \in PairTimes, ns \in PairSizes,
        p \in {<<HashA, <<>>>>, <<HashB, <<>>>>, <<HashA, <<SHA256, ECDSA, 0, 0>>>>}}

\* Pairs given to verify_sth_consistency: signatures play no part there.
ConsistencyInputs == {p \in PairInputs : p[2].tree_head_signature = <<>>}

Proofs == {<<>>, <<HashB>>}

\* Two callers keeping their local variables in one place.
SharedLocals(c) == "c1"

\* Where the local variables of the call of caller c live: in its own
\* frame (signature_input and signature are local names of lines 120-121).
locals_of(c) == c

IdleFrame == [op |-> "idle", pc |-> "idle", ret |-> Running]

Init ==
    /\ construction \in Constructions
    /\ verifier = LogVerifier_init(construction.key_info, construction.merkle_verifier)
    /\ frame = [c \in Callers |-> IdleFrame]
    /\ trace = [c \in Callers |-> <<>>]
    /\ locals = [c \in Callers |-> EmptyLocals]
    /\ enc = NoCall
    /\ dec = NoCall
    /\ tc = NoCall

\* Caller c, running no call, starts the call of frame f.
Start(c, f) ==
    /\ frame' = [frame EXCEPT ![c] = f]
    /\ trace' = [trace EXCEPT ![c] = <<>>]
    /\ UNCHANGED <<construction, verifier, locals, enc, dec, tc>>

Call_verify_sth(c) ==
    /\ frame[c].pc = "idle"
    /\ \E sth_response \in VerifyInputs : Start(c, Frame_verify_sth(sth_response))

Call_verify_sth_temporal_consistency(c) ==
    /\ frame[c].pc = "idle"
    /\ \E p \in PairInputs :
           Start(c, Frame_verify_sth_temporal_consistency(p[1], p[2]))

Call_verify_sth_consistency(c) ==
    /\ frame[c].pc = "idle"
    /\ \E p \in ConsistencyInputs, proof \in Proofs :
           Start(c, Frame_verify_sth_consistency(p[1], p[2], proof))

\* The call of caller c runs the stage it stands at.
Advance(c) ==
    LET r == Stage(verifier, frame[c], locals[locals_of(c)])
    IN  /\ frame' = [frame EXCEPT ![c] = r.frame]
        /\ locals' = [locals EXCEPT ![locals_of(c)] = r.locals]
        /\ trace' = [trace EXCEPT ![c] = Append(@, r.event)]
        /\ UNCHANGED <<construction, verifier, enc, dec, tc>>

EncodeStage(c) ==
    /\ frame[c].pc = "encode"
    /\ Advance(c)

DecodeStage(c) ==
    /\ frame[c].pc = "decode"
    /\ Advance(c)

VerifyStage(c) ==
    /\ frame[c].pc = "verify"
    /\ Advance(c)

TemporalStage(c) ==
    /\ frame[c].pc = "temporal"
    /\ Advance(c)

MerkleStage(c) ==
    /\ frame[c].pc = "merkle"
    /\ Advance(c)

\* Caller c has what its call ended with and is free for its next call.
Collect(c) ==
    /\ frame[c].pc = "done"
    /\ frame' = [frame EXCEPT ![c] = IdleFrame]
    /\ trace' = [trace EXCEPT ![c] = <<>>]
    /\ UNCHANGED <<construction, verifier, locals, enc, dec, tc>>

Next ==
    \E c \in Callers :
        \/ Call_verify_sth(c)
        \/ Call_verify_sth_temporal_consistency(c)
        \/ Call_verify_sth_consistency(c)
        \/ EncodeStage(c)
        \/ DecodeStage(c)
        \/ VerifyStage(c)
        \/ TemporalStage(c)
        \/ MerkleStage(c)
        \/ Collect(c)

Spec == Init /\ [][Next]_vars

-----------------------------------------------------------------------------
(* Properties of _encode_sth_input.                                        *)

\* Every byte of b is in 0..255.
IsBytes(b) == \A i \in 1..Len(b) : b[i] \in 0..255

\* C9: _encode_sth_input returns if and only if the root hash has exactly
\* 32 bytes and raises EncodingError otherwise; what it returns has exactly
\* 50 bytes: the version tag, the tree-head tag, the timestamp as 8
\* big-endian bytes, the tree size as 8 big-endian bytes, and the root hash
\* unchanged.
C9_EncodeExact ==
    enc.kind = "done" =>
        LET s == enc.arg
            o == enc.out
        IN  /\ Returned(o) <=> Len(s.sha256_root_hash) = 32
            /\ ~Returned(o) => Raised(o, "EncodingError")
            /\ Returned(o) =>
                 /\ Len(o.value) = 50
                 /\ IsBytes(o.value)
                 /\ o.value[1] = V1
                 /\ o.value[2] = TREE_HEAD
                 /\ UnpackBE(SubSeq(o.value, 3, 10)) = s.timestamp
                 /\ UnpackBE(SubSeq(o.value, 11, 18)) = s.tree_size
                 /\ SubSeq(o.value, 19, 50) = s.sha256_root_hash

\* A 32-byte root hash with a timestamp of four bytes and a tree size of
\* three has been encoded.
C9_Witness ==
    /\ enc.kind = "done"
    /\ Returned(enc.out)
    /\ enc.arg.timestamp = 16909060
    /\ enc.arg.tree_size = 65536
    /\ SubSeq(enc.out.value, 7, 10) = <<1, 2, 3, 4>>

-----------------------------------------------------------------------------
(* Properties of _decode_signature.                                        *)

\* C5: _decode_signature returns if and only if its input has at least 4
\* bytes, starts with the SHA-256 tag 4 and the ECDSA tag 3, and the
\* big-endian number in its third and fourth byte is the count of the
\* bytes after them; it then returns those bytes unchanged, and in every
\* other case it raises EncodingError.
C5_DecodeExact ==
    dec.kind = "done" =>
        LET s == dec.arg
            o == dec.out
            wellFormed ==
                /\ Len(s) >= 4
                /\ s[1] = 4
                /\ s[2] = 3
                /\ 256 * s[3] + s[4] = Len(s) - 4
        IN  /\ Returned(o) <=> wellFormed
            /\ Returned(o) => o.value = SubSeq(s, 5, Len(s))
            /\ ~Returned(o) => Raised(o, "EncodingError")

\* A container with a payload of two bytes has been decoded.
C5_Witness ==
    /\ dec.kind = "done"
    /\ dec.arg = <<4, 3, 0, 2, 1, 2>>
    /\ dec.out = Return(<<1, 2>>)

-----------------------------------------------------------------------------
(* Properties of verify_sth_temporal_consistency.                          *)

\* C1: a pair whose old timestamp is greater than the new one raises
\* ValueError, whatever the tree sizes are.
C1_WrongOrderFirst ==
    (tc.kind = "done" /\ tc.old.timestamp > tc.new.timestamp)
        => Raised(tc.out, "ValueError")

\* A reversed pair whose old tree is also the bigger one has been checked.
C1_Witness ==
    /\ tc.kind = "done"
    /\ tc.old.timestamp > tc.new.timestamp
    /\ tc.old.tree_size > tc.new.tree_size
    /\ Raised(tc.out, "ValueError")

C6_OrderIndependent ==
    [][(/\ tc.kind = "done"
        /\ tc.old.timestamp = tc.new.timestamp
        /\ tc'.old = tc.new
        /\ tc'.new = tc.old)
       => /\ tc'.out = tc.out
          /\ tc.old.tree_size # tc.new.tree_size
               => /\ Raised(tc.out, "ConsistencyError")
                  /\ Raised(tc'.out, "ConsistencyError")]_vars

\* Two STHs of one timestamp have been rejected with the smaller tree first.
C6_Witness ==
    /\ tc.kind = "done"
    /\ tc.old.timestamp = tc.new.timestamp
    /\ tc.old.tree_size < tc.new.tree_size
    /\ Raised(tc.out, "ConsistencyError")

-----------------------------------------------------------------------------
(* Properties of the calls on one LogVerifier.                             *)

\* The names of the stages of a trace, in order.
Stages(t) == [i \in 1..Len(t) |-> t[i].stage]

IsPrefix(a, b) == Len(a) <= Len(b) /\ a = SubSeq(b, 1, Len(a))

\* s is a signature container: the two tags, and a length prefix that
\* counts the bytes after it.
IsContainer(s) ==
    /\ Len(s) >= 4
    /\ s[1] = 4
    /\ s[2] = 3
    /\ 256 * s[3] + s[4] = Len(s) - 4

ErrorKinds ==
    {"EncodingError", "SignatureError", "ValueError", "ConsistencyError",
     "ProofError", "RuntimeError"}

\* C4: verify_sth encodes, then decodes, then calls the signature engine,
\* and stops at the first stage that fails: a root hash that is not 32
\* bytes long ends the call with EncodingError before the signature is
\* decoded, a malformed container ends it with EncodingError before the
\* engine is called, and when the engine is called (on the payload and the
\* canonical input) the call ends as the engine does: True, EncodingError
\* for a malformed DER, SignatureError for a signature that does not verify.
C4_VerifySthStages ==
    \A c \in Callers :
        frame[c].op = "verify_sth" =>
            LET f == frame[c]
                t == trace[c]
                sth == f.sth_response
                hashOk == Len(sth.sha256_root_hash) = 32
                sigOk == IsContainer(sth.tree_head_signature)
            IN  /\ IsPrefix(Stages(t), <<"encode", "decode", "engine">>)
                /\ Len(t) >= 2 => hashOk
                /\ Len(t) >= 3 => sigOk
                /\ f.pc = "done" =>
                     /\ ~hashOk =>
                          Stages(t) = <<"encode">> /\ f.ret = Raise("EncodingError")
                     /\ (hashOk /\ ~sigOk) =>
                          /\ Stages(t) = <<"encode", "decode">>
                          /\ f.ret = Raise("EncodingError")
                     /\ (hashOk /\ sigOk) =>
                          /\ Stages(t) = <<"encode", "decode", "engine">>
                          /\ t[3].args[1] = SubSeq(sth.tree_head_signature, 5,
                                                   Len(sth.tree_head_signature))
                          /\ Len(t[3].args[2]) = 50
                          /\ SubSeq(t[3].args[2], 19, 50) = sth.sha256_root_hash
                          /\ t[3].out = Return("True") => f.ret = Return("True")
                          /\ Raised(t[3].out, "UnexpectedDER")
                               => f.ret = Raise("EncodingError")
                          /\ Raised(t[3].out, "BadSignatureError")
                               => f.ret = Raise("SignatureError")

\* A call with a root hash of 31 bytes and a well-formed, well-signed
\* container has ended after its first stage.
C4_Witness ==
    \E c \in Callers :
        /\ frame[c].op = "verify_sth"
        /\ frame[c].pc = "done"
        /\ Len(frame[c].sth_response.sha256_root_hash) = 31
        /\ IsContainer(frame[c].sth_response.tree_head_signature)
        /\ Stages(trace[c]) = <<"encode">>
        /\ frame[c].ret = Raise("EncodingError")

\* C3: verify_sth_consistency runs the temporal check and then, only if it
\* passed, calls the Merkle verifier once with the two sizes, the two root
\* hashes and the proof.  A failed temporal check ends the call with its
\* error, ValueError or ConsistencyError, and no call of the Merkle
\* verifier; otherwise the call returns True when the Merkle verifier does
\* and raises the Merkle verifier's ProofError when it raises, and it
\* returns True only if the Merkle verifier returned.
C3_ConsistencyDelegation ==
    \A c \in Callers :
        frame[c].op = "verify_sth_consistency" =>
            LET f == frame[c]
                t == trace[c]
            IN  /\ IsPrefix(Stages(t), <<"temporal", "merkle">>)
                /\ Len(t) = 2 =>
                     /\ t[1].out = Return("True")
                     /\ t[2].args = <<f.old_sth.tree_size, f.new_sth.tree_size,
                                      f.old_sth.sha256_root_hash,
                                      f.new_sth.sha256_root_hash, f.proof>>
                /\ f.pc = "merkle" => (Len(t) = 1 /\ t[1].out = Return("True"))
                /\ f.pc = "done" =>
                     /\ Len(t) >= 1
                     /\ t[1].out.kind = "raise" =>
                          /\ Len(t) = 1
                          /\ f.ret = t[1].out
                          /\ f.ret.error \in {"ValueError", "ConsistencyError"}
                     /\ t[1].out.kind # "raise" =>
                          /\ Len(t) = 2
                          /\ t[2].out = Return("True") => f.ret = Return("True")
                          /\ t[2].out.kind = "raise" => f.ret = Raise("ProofError")
                          /\ f.ret = Return("True") => Returned(t[2].out)

\* A pair that passed the temporal check has been rejected by the Merkle
\* verifier, called with a proof that is not empty.
C3_Witness ==
    \E c \in Callers :
        /\ frame[c].op = "verify_sth_consistency"
        /\ frame[c].pc = "done"
        /\ Stages(trace[c]) = <<"temporal", "merkle">>
        /\ frame[c].old_sth.tree_size < frame[c].new_sth.tree_size
        /\ frame[c].old_sth.sha256_root_hash # frame[c].new_sth.sha256_root_hash
        /\ frame[c].proof # <<>>
        /\ frame[c].ret = Raise("ProofError")

\* C7: a call that has ended has returned True or raised an error of one
\* of the kinds; it has not returned False or None, also when the engine
\* or the Merkle verifier did.
C7_TrueOrRaises ==
    \A c \in Callers :
        /\ frame[c].pc = "done" =>
             \/ frame[c].ret = Return("True")
             \/ frame[c].ret.kind = "raise" /\ frame[c].ret.error \in ErrorKinds
        /\ frame[c].pc # "done" => frame[c].ret = Running

\* The engine has returned False to a call of verify_sth, which raised.
C7_Witness ==
    \E c \in Callers :
        /\ frame[c].op = "verify_sth"
        /\ frame[c].pc = "done"
        /\ Len(trace[c]) = 3
        /\ trace[c][3].out = Return("False")
        /\ frame[c].ret = Raise("RuntimeError")

\* The call of frame f run alone, from its start, on the verifier self.
RunAlone(self, f) ==
    RunFrom(self,
            [f EXCEPT !.pc = IF f.op = "verify_sth" THEN "encode" ELSE "temporal",
                      !.ret = Running],
            EmptyLocals)

\* C8: no step of any caller changes the LogVerifier, and whenever a call
\* has ended, in whatever interleaving with the other caller's calls, it
\* has ended as the same call ends when run alone on a verifier freshly
\* built from the same key_info and Merkle verifier.
C8_CallsIndependent ==
    [][/\ verifier' = verifier
       /\ \A c \in Callers :
            frame'[c].pc = "done" =>
                frame'[c].ret =
                    RunAlone(LogVerifier_init(construction.key_info,
                                              construction.merkle_verifier),
                             frame'[c])]_vars

\* One caller's verify_sth has ended with True while the other's, of an
\* STH with another signature, stands before its call of the engine.
C8_Witness ==
    \E c, d \in Callers :
        /\ c # d
        /\ frame[c].op = "verify_sth"
        /\ frame[c].pc = "done"
        /\ frame[c].ret = Return("True")
        /\ frame[d].op = "verify_sth"
        /\ frame[d].pc = "verify"
        /\ frame[d].sth_response # frame[c].sth_response

\* The timestamps and tree sizes of a pair of STHs.
FourValues(f) ==
    <<f.old_sth.timestamp, f.new_sth.timestamp, f.old_sth.tree_size, f.new_sth.tree_size>>

\* Two STHs of one timestamp and one size with two root hashes.
IsFork(f) ==
    /\ f.old_sth.timestamp = f.new_sth.timestamp
    /\ f.old_sth.tree_size = f.new_sth.tree_size
    /\ f.old_sth.sha256_root_hash # f.new_sth.sha256_root_hash

\* C10: two temporal checks of pairs with the same two timestamps and the
\* same two tree sizes end the same way, whatever the root hashes and the
\* signatures; a fork passes the temporal check, and in
\* verify_sth_consistency it reaches the Merkle verifier, which is given
\* the two root hashes and whose error ends the call.
C10_TemporalIgnoresHashes ==
    /\ \A c, d \in Callers :
          (/\ frame[c].op = "verify_sth_temporal_consistency"
           /\ frame[d].op = "verify_sth_temporal_consistency"
           /\ frame[c].pc = "done"
           /\ frame[d].pc = "done"
           /\ FourValues(frame[c]) = FourValues(frame[d]))
          => frame[c].ret = frame[d].ret
    /\ \A c \in Callers :
          (/\ frame[c].op = "verify_sth_temporal_consistency"
           /\ frame[c].pc = "done"
           /\ IsFork(frame[c]))
          => frame[c].ret = Return("True")
    /\ \A c \in Callers :
          (/\ frame[c].op = "verify_sth_consistency"
           /\ frame[c].pc = "done"
           /\ IsFork(frame[c]))
          => /\ Stages(trace[c]) = <<"temporal", "merkle">>
             /\ trace[c][2].args[3] = frame[c].old_sth.sha256_root_hash
             /\ trace[c][2].args[4] = frame[c].new_sth.sha256_root_hash
             /\ trace[c][2].out.kind = "raise" => frame[c].ret = trace[c][2].out

\* A fork has passed one caller's temporal check and has been rejected by
\* the Merkle verifier in the other caller's verify_sth_consistency.
C10_Witness ==
    \E c, d \in Callers :
        /\ frame[c].op = "verify_sth_temporal_consistency"
        /\ frame[c].pc = "done"
        /\ IsFork(frame[c])
        /\ frame[c].ret = Return("True")
        /\ frame[d].op = "verify_sth_consistency"
        /\ frame[d].pc = "done"
        /\ FourValues(frame[d]) = FourValues(frame[c])
        /\ IsFork(frame[d])
        /\ verifier.merkle_verifier = "merkle"
        /\ frame[d].ret = Raise("ProofError")

=============================================================================
